---- MODULE Spec2Model ----
(***************************************************************************)
(* BlockchainState (js/blockchain_state): the ledger state synchronizer.   *)
(*                                                                         *)
(* JavaScript runs each task to completion between two awaits, so one      *)
(* action of this model is one such run: from the resolution of the        *)
(* promise a task is suspended on up to its next await of a remote call    *)
(* (or its end).  An await of a value that is no pending remote call       *)
(* (`await contract(...)`, the return of _instantiateContractAsync to its  *)
(* awaiting caller) resumes in the same microtask checkpoint and is part   *)
(* of the same action.                                                     *)
(***************************************************************************)
EXTENDS Integers, Sequences, FiniteSets, TLC

\* ---------------------------------------------------------------- bounds
MaxNotifications == 1      \* networkConnection notifications in one run
NumNetworks == 2           \* network identities 1..NumNetworks
MaxLedgerOps == 3          \* transactions mined on the ledgers in one run
MaxCollisionDraw == 2      \* demo requests of a run that may repeat an address

\* ------------------------------------------------------------- constants
NULL_ADDRESS == 0
NumFakeRequests == 10
FakeIndexSpan == 39        \* index = 2 + floor(random * 39 + 1) : 3..41
FakeLetterSpan == 51       \* letterIndex = floor(random * 51 + 1) : 1..51

NoNetwork == 0             \* the null network id
NullErr == "<null>"        \* this._err === null
NoWatcher == [kind |-> "none", reg |-> 0, by |-> 0]

Networks == 1..NumNetworks
Addrs == 1..MaxLedgerOps
Handlers == 1..MaxNotifications
Tasks == 0..MaxNotifications   \* 0: _onPageLoadInitFireAndForgetAsync

VARIABLES
    this,        \* the fields of the BlockchainState object
    tasks,       \* the async invocations and the await each is suspended on
    envNetwork,  \* the network the provider is attached to (NoNetwork: none)
    listening,   \* the networkConnection listener is registered
    ledger,      \* per network, the registry's requests in index order (wire form)
    watching,    \* the event filters that are watching
    last,        \* the last step: the code path run, by which task, the Store error
                 \* raised, the watchers stopped
    onUpdated,   \* this._onUpdatedFn has been called
    seenAccepted \* history: the requesterAddresses a Store entry has shown accepted

vars == <<this, tasks, envNetwork, listening, ledger, watching, last, onUpdated,
          seenAccepted>>

\* stopped: the watchers the step has stopped.
Step(op, t) == [op |-> op, task |-> t, err |-> "none", stopped |-> 0]
StepErr(op, t, err) == [op |-> op, task |-> t, err |-> err, stopped |-> 0]

\* ------------------------------------------------------ request helpers
_convertRequestArrToObj(requestArr) ==
    [requesterName |-> requestArr[1],
     valentineName |-> requestArr[2],
     customMessage |-> requestArr[3],
     wasAccepted |-> requestArr[4],
     valentineAddress |-> requestArr[5],
     requesterAddress |-> requestArr[6]]

emptyRequestArr == <<"", "", "", FALSE, NULL_ADDRESS, NULL_ADDRESS>>

_doesRequestExist(request) ==
    ~(request = _convertRequestArrToObj(emptyRequestArr))

\* ------------------------------------------- Entity Store (ValentineRequests)
\* add and update give the Store reached and the error raised, if any.
StoreHas(store, address) ==
    \E k \in 1..Len(store) : store[k].requesterAddress = address

StoreAdd(store, request) ==
    IF StoreHas(store, request.requesterAddress)
    THEN [store |-> store, err |-> "DuplicateKey"]
    ELSE [store |-> Append(store, request), err |-> "none"]

StoreUpdateAccepted(store, address, value) ==
    IF ~StoreHas(store, address)
    THEN [store |-> store, err |-> "NotFound"]
    ELSE [store |-> [k \in 1..Len(store) |->
                        IF store[k].requesterAddress = address
                        THEN [store[k] EXCEPT !.wasAccepted = value]
                        ELSE store[k]],
          err |-> "none"]

StoreClearAll == <<>>

AcceptedIn(store) ==
    {store[k].requesterAddress : k \in {j \in 1..Len(store) : store[j].wasAccepted}}

\* ------------------------------------------------- the ledger contract
numRequesters(reg) == Len(ledger[reg])

getRequestByIndex(reg, i) ==
    IF i < Len(ledger[reg]) THEN ledger[reg][i + 1] ELSE emptyRequestArr

LedgerHas(reg, address) ==
    \E k \in 1..Len(ledger[reg]) : ledger[reg][k][6] = address

getRequestByRequesterAddress(reg, address) ==
    IF LedgerHas(reg, address)
    THEN ledger[reg][CHOOSE k \in 1..Len(ledger[reg]) : ledger[reg][k][6] = address]
    ELSE emptyRequestArr

\* The transactions mined so far: one per request and one per acceptance.
RECURSIVE LedgerOps(_)
LedgerOps(ns) ==
    IF ns = {} THEN 0
    ELSE LET n == CHOOSE m \in ns : TRUE
         IN  Len(ledger[n]) + Cardinality({k \in 1..Len(ledger[n]) : ledger[n][k][4]})
             + LedgerOps(ns \ {n})

\* createOpenValentineRequest mined on network n; requesters are numbered in
\* their order of arrival on a network.
LedgerCreateRequest(n, address) ==
    /\ LedgerOps(Networks) < MaxLedgerOps
    /\ ~LedgerHas(n, address)
    /\ address = Len(ledger[n]) + 1
    /\ ledger' = [ledger EXCEPT ![n] =
                    Append(@, <<"name", "valentine", "message", FALSE, NULL_ADDRESS, address>>)]
    /\ last' = Step("ledger:create", 0)
    /\ UNCHANGED <<this, tasks, envNetwork, listening, watching, onUpdated, seenAccepted>>

\* acceptValentineRequest mined on network n.
LedgerAcceptRequest(n, address) ==
    /\ LedgerOps(Networks) < MaxLedgerOps
    /\ \E k \in 1..Len(ledger[n]) :
          /\ ledger[n][k][6] = address
          /\ ~ledger[n][k][4]
          /\ ledger' = [ledger EXCEPT ![n][k][4] = TRUE]
    /\ last' = Step("ledger:accept", 0)
    /\ UNCHANGED <<this, tasks, envNetwork, listening, watching, onUpdated, seenAccepted>>

\* line 92-101, with the registry `reg` the call is made on
getRequestIfExistsAsync(reg, address) ==
    LET requestArr == getRequestByRequesterAddress(reg, address)
        request == _convertRequestArrToObj(requestArr)
    IN  IF ~_doesRequestExist(request) THEN <<>> ELSE <<request>>

\* ------------------------------------------------ Demo/Fallback generator
FakeAddress(index, letterIndex) == 1000 + index * 100 + letterIndex

\* The k-th address of the generator's range, k in 1..FakeIndexSpan*FakeLetterSpan.
FakeAddressNo(k) ==
    FakeAddress(3 + ((k - 1) \div FakeLetterSpan), 1 + ((k - 1) % FakeLetterSpan))

\* The addresses one call may return.  The call draws any address of the
\* generator's range; two draws of addresses the Store does not hold lead to
\* the same behaviour up to the name of the address, so the first such address
\* stands for them.  A draw of an address the Store holds is considered for
\* the first MaxCollisionDraw demo requests of a run.
_getUniqueFakeAddress(store) ==
    LET held == {store[k].requesterAddress : k \in 1..Len(store)}
        heldFake == {a \in held : a >= FakeAddress(3, 1)}
        c == Cardinality(heldFake)
        first == CHOOSE k \in 1..(c + 1) :
                    /\ FakeAddressNo(k) \notin held
                    /\ \A j \in 1..(k - 1) : FakeAddressNo(j) \in held
    IN  {FakeAddressNo(first)} \cup (IF c < MaxCollisionDraw THEN heldFake ELSE {})

getFakeName(len) == "fake" \o ToString(len)

_createFakeRequest(store, address) ==
    StoreAdd(store, [requesterName |-> getFakeName(10),
                     valentineName |-> getFakeName(12),
                     customMessage |-> getFakeName(20),
                     wasAccepted |-> FALSE,
                     valentineAddress |-> NULL_ADDRESS,
                     requesterAddress |-> address])

\* _.times(num, _createFakeRequest) continued from each of the outcomes
\* reached so far; an outcome with a Store error has left the loop.
RECURSIVE FakeRequestsFrom(_, _)
FakeRequestsFrom(outcomes, num) ==
    IF num = 0 THEN outcomes
    ELSE FakeRequestsFrom(
             UNION {IF o.err # "none" THEN {o}
                    ELSE {_createFakeRequest(o.store, a) :
                             a \in _getUniqueFakeAddress(o.store)}
                    : o \in outcomes},
             num - 1)

\* The outcomes of _.times(num, _createFakeRequest): the Store reached and the
\* Store error that ended the loop, if any.
_createFakeRequests(store, num) ==
    FakeRequestsFrom({[store |-> store, err |-> "none"]}, num)

\* ------------------------------------------------------- status accessors
hasError == this._err # NullErr
getError == this._err
isLoaded == this._isLoaded
getValentineRequests == this._valentineRequests

\* --------------------------------------------------------------- tasks
\* pc names the await a task is suspended on; token is the argument of
\* _networkConnectionChangedAsync; n, i are numRequesters and the loop index;
\* reg is the registry the pending ledger call was made on.
IdleTask == [pc |-> "idle", token |-> NoNetwork, n |-> 0, i |-> 0, reg |-> 0]
DoneTask == [IdleTask EXCEPT !.pc = "done"]

\* line 15-30: the constructor, up to the await of _onPageLoadAsync
Init ==
    /\ this = [_err |-> NullErr,
               _isLoaded |-> FALSE,
               _networkId |-> NoNetwork,
               _valentineRegistry |-> 0,
               _valentineRequests |-> <<>>,
               _logValentineRequestCreated |-> NoWatcher,
               _logRequestAccepted |-> NoWatcher]
    /\ tasks = [t \in Tasks |-> IF t = 0 THEN [IdleTask EXCEPT !.pc = "pageLoad"]
                                ELSE IdleTask]
    /\ envNetwork \in Networks \cup {NoNetwork}
    /\ listening = FALSE
    /\ ledger = [n \in Networks |-> <<>>]
    /\ watching = {}
    /\ last = Step("constructor", 0)
    /\ onUpdated = FALSE
    /\ seenAccepted = {}

\* line 148-149, and for a run called by _networkConnectionChangedAsync
\* line 245-246 after it.
InstantiateTail(th, t) ==
    [th EXCEPT !._isLoaded = TRUE,
               !._networkId = IF t = 0 THEN @ ELSE tasks[t].token]

\* Error messages are sequences of words.  line 137: the text searched for.
NotDeployedMessage == <<"not", "been", "deployed", "to", "detected", "network">>

\* The errors deployed() throws: the contract has no address on the detected
\* network, the provider fails, the artifacts hold no network at all.
DeployedErrors ==
    {<<"ValentineRegistry", "has", "not", "been", "deployed", "to", "detected",
       "network", "(network/artifact", "mismatch)">>,
     <<"Invalid", "JSON", "RPC", "response">>,
     <<"ValentineRegistry", "has", "not", "been", "deployed", "to", "any", "network">>}

\* line 136: `${err}` of an Error object
errMsg(err) == <<"Error:">> \o err

\* line 137: _.includes(errMsg, text), the text occurs in errMsg
_includes(msg, text) ==
    \E k \in 0..(Len(msg) - Len(text)) : SubSeq(msg, k + 1, k + Len(text)) = text

\* A variant of the catch block that reports every error as unhandled.
CatchErrAlwaysUnhandled(th, notDeployedMsg) ==
    [th EXCEPT !._err = "UNHANDLED_ERROR"]

\* line 135-144: the catch block of _instantiateContractAsync
CatchErr(th, notDeployedMsg) ==
    [th EXCEPT !._err = IF notDeployedMsg THEN "CONTRACT_NOT_DEPLOYED_ON_NETWORK"
                        ELSE "UNHANDLED_ERROR"]

\* A variant of the disconnected branch that also empties the Store.
DisconnectedClearsStore(th) ==
    [th EXCEPT !._err = "DISCONNECTED_FROM_ETHEREUM_NODE",
               !._valentineRequests = StoreClearAll]

\* line 146 and line 239: the network identity is null
Disconnected(th) ==
    [th EXCEPT !._err = "DISCONNECTED_FROM_ETHEREUM_NODE"]

\* A variant of _startWatchingContractForEvents that stops no watcher.
StartWatchingWithoutStop(th, w, t) ==
    LET created == [kind |-> "created", reg |-> th._valentineRegistry, by |-> t]
        accepted == [kind |-> "accepted", reg |-> th._valentineRegistry, by |-> t]
    IN  [this |-> [th EXCEPT !._logValentineRequestCreated = created,
                             !._logRequestAccepted = accepted],
         watching |-> w \cup {created, accepted},
         stopped |-> 0]

\* line 200-235: stop the watchers held, register two new ones
_startWatchingContractForEvents(th, w, t) ==
    LET left == w \ {th._logValentineRequestCreated, th._logRequestAccepted}
        created == [kind |-> "created", reg |-> th._valentineRegistry, by |-> t]
        accepted == [kind |-> "accepted", reg |-> th._valentineRegistry, by |-> t]
    IN  [this |-> [th EXCEPT !._logValentineRequestCreated = created,
                             !._logRequestAccepted = accepted],
         watching |-> left \cup {created, accepted},
         stopped |-> Cardinality(w \ left)]

\* A variant of AfterBulkLoad that registers the watchers although a demo
\* request could not be added.
AfterBulkLoadWatchesOnError(th, t) ==
    {LET sw == _startWatchingContractForEvents(
                   [th EXCEPT !._valentineRequests = fo.store], watching, t)
     IN  IF fo.err = "none"
         THEN [this |-> InstantiateTail(sw.this, t),
               watching |-> sw.watching,
               last |-> [Step("load:done", t) EXCEPT !.stopped = sw.stopped]]
         ELSE [this |-> InstantiateTail(CatchErr(sw.this, FALSE), t),
               watching |-> sw.watching,
               last |-> StepErr("load:fakeError", t, fo.err)]
     : fo \in _createFakeRequests(th._valentineRequests, NumFakeRequests)}

\* line 133-134 and 148-149: after the loop of _getExistingRequestsAsync, the
\* demo requests, the subscriptions and the tail of _instantiateContractAsync.
AfterBulkLoad(th, t) ==
    {IF fo.err = "none"
     THEN LET sw == _startWatchingContractForEvents(
                        [th EXCEPT !._valentineRequests = fo.store], watching, t)
          IN  [this |-> InstantiateTail(sw.this, t),
               watching |-> sw.watching,
               last |-> [Step("load:done", t) EXCEPT !.stopped = sw.stopped]]
     ELSE [this |-> InstantiateTail(
                        CatchErr([th EXCEPT !._valentineRequests = fo.store], FALSE), t),
           watching |-> watching,
           last |-> StepErr("load:fakeError", t, fo.err)]
     : fo \in _createFakeRequests(th._valentineRequests, NumFakeRequests)}

\* A variant of the boot that goes on to the network query without a web3
\* instance.
PageLoadInitGoesOnWithoutWeb3(doesWeb3InstanceExist) ==
    /\ tasks[0].pc = "pageLoad"
    /\ this' = IF doesWeb3InstanceExist THEN this
               ELSE [this EXCEPT !._err = "NO_WEB3_INSTANCE_FOUND", !._isLoaded = TRUE]
    /\ onUpdated' = ~doesWeb3InstanceExist
    /\ listening' = TRUE
    /\ tasks' = [tasks EXCEPT ![0].pc = "networkId"]
    /\ last' = Step(IF doesWeb3InstanceExist THEN "boot:start" ELSE "boot:noWeb3", 0)
    /\ UNCHANGED <<envNetwork, ledger, watching, seenAccepted>>

\* line 103-122: window.onload has fired
_onPageLoadInitFireAndForgetAsync(doesWeb3InstanceExist) ==
    /\ tasks[0].pc = "pageLoad"
    /\ IF ~doesWeb3InstanceExist
       THEN /\ this' = [this EXCEPT !._err = "NO_WEB3_INSTANCE_FOUND",
                                    !._isLoaded = TRUE]
            /\ onUpdated' = TRUE
            /\ tasks' = [tasks EXCEPT ![0] = DoneTask]
            /\ last' = Step("boot:noWeb3", 0)
            /\ UNCHANGED listening
       ELSE /\ listening' = TRUE
            /\ tasks' = [tasks EXCEPT ![0].pc = "networkId"]
            /\ last' = Step("boot:start", 0)
            /\ UNCHANGED <<this, onUpdated>>
    /\ UNCHANGED <<envNetwork, ledger, watching, seenAccepted>>

\* line 124-127 and 145-149: getNetworkIdIfExists has resolved
InstantiateNetworkId(t) ==
    /\ tasks[t].pc = "networkId"
    /\ LET th == [this EXCEPT !._networkId = envNetwork]
       IN  IF envNetwork # NoNetwork
           THEN /\ this' = th
                /\ tasks' = [tasks EXCEPT ![t].pc = "deployed"]
                /\ last' = Step("networkId:ok", t)
                /\ UNCHANGED onUpdated
           ELSE /\ this' = InstantiateTail(Disconnected(th), t)
                /\ tasks' = [tasks EXCEPT ![t] = DoneTask]
                /\ last' = Step("networkId:null", t)
                /\ onUpdated' = TRUE
    /\ UNCHANGED <<envNetwork, listening, ledger, watching, seenAccepted>>

\* line 130-131 and 152-154: deployed() has resolved; clearAll, numRequesters.call()
InstantiateDeployed(t) ==
    /\ tasks[t].pc = "deployed"
    /\ envNetwork # NoNetwork
    /\ this' = [this EXCEPT !._valentineRegistry = envNetwork,
                            !._valentineRequests = StoreClearAll]
    /\ tasks' = [tasks EXCEPT ![t].pc = "numRequesters", ![t].reg = envNetwork]
    /\ last' = Step("deployed:ok", t)
    /\ UNCHANGED <<envNetwork, listening, ledger, watching, onUpdated, seenAccepted>>

\* line 130, 135-149: deployed() has thrown err
InstantiateDeployedFails(t, err) ==
    /\ tasks[t].pc = "deployed"
    /\ LET notDeployedMsg == _includes(errMsg(err), NotDeployedMessage)
       IN  /\ notDeployedMsg => envNetwork # NoNetwork
           /\ this' = InstantiateTail(CatchErr(this, notDeployedMsg), t)
           /\ last' = Step(IF notDeployedMsg THEN "deployed:notDeployed"
                           ELSE "deployed:error", t)
    /\ tasks' = [tasks EXCEPT ![t] = DoneTask]
    /\ onUpdated' = TRUE
    /\ UNCHANGED <<envNetwork, listening, ledger, watching, seenAccepted>>

\* line 154-156, or 154-155 and 133-149: numRequesters.call() has resolved
GetExistingNumRequesters(t) ==
    /\ tasks[t].pc = "numRequesters"
    /\ LET n == numRequesters(tasks[t].reg)
       IN  IF 0 < n
           THEN /\ tasks' = [tasks EXCEPT ![t].pc = "getRequest", ![t].n = n, ![t].i = 0,
                                          ![t].reg = this._valentineRegistry]
                /\ last' = Step("load:count", t)
                /\ UNCHANGED <<this, watching, onUpdated>>
           ELSE /\ \E r \in AfterBulkLoad(this, t) :
                      /\ this' = r.this
                      /\ watching' = r.watching
                      /\ last' = r.last
                /\ tasks' = [tasks EXCEPT ![t] = DoneTask]
                /\ onUpdated' = TRUE
    /\ seenAccepted' = seenAccepted \cup AcceptedIn(this'._valentineRequests)
    /\ UNCHANGED <<envNetwork, listening, ledger>>

\* line 156-158, then 155-156 again or 133-149: getRequestByIndex.call(i) has resolved
GetExistingRequest(t) ==
    /\ tasks[t].pc = "getRequest"
    /\ LET requestArr == getRequestByIndex(tasks[t].reg, tasks[t].i)
           request == _convertRequestArrToObj(requestArr)
           added == StoreAdd(this._valentineRequests, request)
           th == [this EXCEPT !._valentineRequests = added.store]
       IN  IF added.err # "none"
           THEN /\ this' = InstantiateTail(CatchErr(th, FALSE), t)
                /\ last' = StepErr("load:addError", t, added.err)
                /\ tasks' = [tasks EXCEPT ![t] = DoneTask]
                /\ onUpdated' = TRUE
                /\ UNCHANGED watching
           ELSE IF tasks[t].i + 1 < tasks[t].n
           THEN /\ this' = th
                /\ tasks' = [tasks EXCEPT ![t].i = @ + 1,
                                          ![t].reg = this._valentineRegistry]
                /\ last' = Step("load:next", t)
                /\ UNCHANGED <<watching, onUpdated>>
           ELSE /\ \E r \in AfterBulkLoad(th, t) :
                      /\ this' = r.this
                      /\ watching' = r.watching
                      /\ last' = r.last
                /\ tasks' = [tasks EXCEPT ![t] = DoneTask]
                /\ onUpdated' = TRUE
    /\ seenAccepted' = seenAccepted \cup AcceptedIn(this'._valentineRequests)
    /\ UNCHANGED <<envNetwork, listening, ledger>>

\* line 154 or 156, 135-149: a ledger call of the bulk load has thrown
GetExistingFails(t) ==
    /\ tasks[t].pc \in {"numRequesters", "getRequest"}
    /\ this' = InstantiateTail(CatchErr(this, FALSE), t)
    /\ tasks' = [tasks EXCEPT ![t] = DoneTask]
    /\ onUpdated' = TRUE
    /\ last' = Step("load:callError", t)
    /\ UNCHANGED <<envNetwork, listening, ledger, watching, seenAccepted>>

\* A variant of NetworkIdChanged that takes every notified token for a new one.
NetworkIdChangedAlways(networkId, networkIdIfExists) == TRUE

\* A variant of NetworkIdChanged that takes no notified token for a new one.
NetworkIdChangedNever(networkId, networkIdIfExists) == FALSE

\* line 240: the token differs from the network id held
NetworkIdChanged(networkId, networkIdIfExists) == networkId # networkIdIfExists

\* line 236-247: the transport reports the network identity networkIdIfExists
_networkConnectionChangedAsync(t, networkIdIfExists) ==
    /\ listening
    /\ tasks[t].pc = "idle"
    /\ \A u \in Handlers : u < t => tasks[u].pc # "idle"
    /\ envNetwork' = networkIdIfExists
    /\ IF networkIdIfExists = NoNetwork
       THEN /\ this' = [Disconnected(this) EXCEPT !._networkId = networkIdIfExists]
            /\ tasks' = [tasks EXCEPT ![t] = DoneTask]
            /\ last' = Step("notify:null", t)
            /\ onUpdated' = TRUE
       ELSE IF NetworkIdChanged(this._networkId, networkIdIfExists)
       THEN /\ this' = [this EXCEPT !._err = ""]
            /\ tasks' = [tasks EXCEPT ![t].pc = "networkId",
                                      ![t].token = networkIdIfExists]
            /\ last' = Step("notify:changed", t)
            /\ UNCHANGED onUpdated
       ELSE /\ this' = [this EXCEPT !._networkId = networkIdIfExists]
            /\ tasks' = [tasks EXCEPT ![t] = DoneTask]
            /\ last' = Step("notify:same", t)
            /\ onUpdated' = TRUE
    /\ UNCHANGED <<listening, ledger, watching, seenAccepted>>

\* A variant of the creation callback that does not look at the delivery error.
CreatedCallbackIgnoresErr(store, err, args) ==
    LET request == [args EXCEPT !.wasAccepted = FALSE]
    IN  IF ~StoreHas(store, request.requesterAddress)
        THEN LET r == StoreAdd(store, request)
             IN  [store |-> r.store, op |-> "created:add", err |-> r.err]
        ELSE [store |-> store, op |-> "created:held", err |-> "none"]

\* A variant of the creation callback without the has() check before add().
CreatedCallbackNoHasCheck(store, err, args) ==
    IF err THEN [store |-> store, op |-> "created:deliveryError", err |-> "none"]
    ELSE LET request == [args EXCEPT !.wasAccepted = FALSE]
             r == StoreAdd(store, request)
         IN  [store |-> r.store,
              op |-> IF r.err = "none" THEN "created:add" ELSE "created:held",
              err |-> r.err]

\* line 210-221: the LogValentineRequestCreated watch callback
LogValentineRequestCreatedCallback(store, err, args) ==
    IF err THEN [store |-> store, op |-> "created:deliveryError", err |-> "none"]
    ELSE LET request == [args EXCEPT !.wasAccepted = FALSE]
         IN  IF ~StoreHas(store, request.requesterAddress)
             THEN LET r == StoreAdd(store, request)
                  IN  [store |-> r.store, op |-> "created:add", err |-> r.err]
             ELSE [store |-> store, op |-> "created:held", err |-> "none"]

\* A variant of the acceptance callback without the has() check before update().
AcceptedCallbackNoHasCheck(store, err, eventData) ==
    IF err THEN [store |-> store, op |-> "accepted:deliveryError", err |-> "none"]
    ELSE LET r == StoreUpdateAccepted(store, eventData.requesterAddress, TRUE)
         IN  [store |-> r.store,
              op |-> IF r.err = "none" THEN "accepted:update" ELSE "accepted:absent",
              err |-> r.err]

\* A variant of the acceptance callback that writes the event's flag as false.
AcceptedCallbackWritesFalse(store, err, eventData) ==
    IF err THEN [store |-> store, op |-> "accepted:deliveryError", err |-> "none"]
    ELSE IF StoreHas(store, eventData.requesterAddress)
         THEN LET r == StoreUpdateAccepted(store, eventData.requesterAddress, FALSE)
              IN  [store |-> r.store, op |-> "accepted:update", err |-> r.err]
         ELSE [store |-> store, op |-> "accepted:absent", err |-> "none"]

\* line 224-234: the LogRequestAccepted watch callback
LogRequestAcceptedCallback(store, err, eventData) ==
    IF err THEN [store |-> store, op |-> "accepted:deliveryError", err |-> "none"]
    ELSE IF StoreHas(store, eventData.requesterAddress)
         THEN LET r == StoreUpdateAccepted(store, eventData.requesterAddress, TRUE)
              IN  [store |-> r.store, op |-> "accepted:update", err |-> r.err]
         ELSE [store |-> store, op |-> "accepted:absent", err |-> "none"]

\* A LogValentineRequestCreated event of the registry w watches is delivered to
\* w's callback: any request of that ledger, any number of times.
DeliverCreated(w, err, address) ==
    /\ w \in watching
    /\ w.kind = "created"
    /\ LedgerHas(w.reg, address)
    /\ LET r == LogValentineRequestCreatedCallback(
                    this._valentineRequests, err,
                    _convertRequestArrToObj(getRequestByRequesterAddress(w.reg, address)))
       IN  /\ this' = [this EXCEPT !._valentineRequests = r.store]
           /\ last' = StepErr(r.op, w.by, r.err)
    /\ seenAccepted' = seenAccepted \cup AcceptedIn(this'._valentineRequests)
    /\ UNCHANGED <<tasks, envNetwork, listening, ledger, watching, onUpdated>>

\* A LogRequestAccepted event of the registry w watches is delivered to w's
\* callback: any accepted request of that ledger, any number of times.
DeliverAccepted(w, err, address) ==
    /\ w \in watching
    /\ w.kind = "accepted"
    /\ LedgerHas(w.reg, address)
    /\ getRequestByRequesterAddress(w.reg, address)[4]
    /\ LET r == LogRequestAcceptedCallback(this._valentineRequests, err,
                                           [requesterAddress |-> address])
       IN  /\ this' = [this EXCEPT !._valentineRequests = r.store]
           /\ last' = StepErr(r.op, w.by, r.err)
    /\ seenAccepted' = seenAccepted \cup AcceptedIn(this'._valentineRequests)
    /\ UNCHANGED <<tasks, envNetwork, listening, ledger, watching, onUpdated>>

Next ==
    \/ \E b \in BOOLEAN : _onPageLoadInitFireAndForgetAsync(b)
    \/ \E t \in Tasks : InstantiateNetworkId(t)
    \/ \E t \in Tasks : InstantiateDeployed(t)
    \/ \E t \in Tasks, err \in DeployedErrors : InstantiateDeployedFails(t, err)
    \/ \E t \in Tasks : GetExistingNumRequesters(t)
    \/ \E t \in Tasks : GetExistingRequest(t)
    \/ \E t \in Tasks : GetExistingFails(t)
    \/ \E t \in Handlers, n \in Networks \cup {NoNetwork} :
          _networkConnectionChangedAsync(t, n)
    \/ \E w \in watching, err \in BOOLEAN, a \in Addrs : DeliverCreated(w, err, a)
    \/ \E w \in watching, err \in BOOLEAN, a \in Addrs : DeliverAccepted(w, err, a)
    \/ \E n \in Networks, a \in Addrs : LedgerCreateRequest(n, a)
    \/ \E n \in Networks, a \in Addrs : LedgerAcceptRequest(n, a)

Spec == Init /\ [][Next]_vars

\* The step of task t that follows the return or the failure of the remote
\* call t awaits.
TaskStep(t) ==
    \/ InstantiateNetworkId(t)
    \/ InstantiateDeployed(t)
    \/ \E err \in DeployedErrors : InstantiateDeployedFails(t, err)
    \/ GetExistingNumRequesters(t)
    \/ GetExistingRequest(t)
    \/ GetExistingFails(t)

\* window.onload fires, and every remote call returns or fails.
LiveSpec ==
    /\ Spec
    /\ WF_vars(\E b \in BOOLEAN : _onPageLoadInitFireAndForgetAsync(b))
    /\ \A t \in Tasks : WF_vars(TaskStep(t))

\* ================================================================ claims
Active(t) == tasks[t].pc \in {"networkId", "deployed", "numRequesters", "getRequest"}

\* t has cleared the Store and its bulk load is not complete.
Loading(t) == tasks[t].pc \in {"numRequesters", "getRequest"}

Store == this._valentineRequests

UniqueKeys(store) ==
    \A j, k \in 1..Len(store) :
        store[j].requesterAddress = store[k].requesterAddress => j = k

\* The entries of the Store that are no demo requests.
LoadedPart(store) == SelectSeq(store, LAMBDA r : r.requesterAddress < FakeAddress(3, 1))

\* C1: between the Store clear of a reload started by a network-change
\* notification and the completion of that reload's bulk load, no creation or
\* acceptance callback mutates the Store (callbacks of the watchers an earlier
\* boot sequence registered included).
C1_NoEventBetweenClearAndLoad ==
    ~(/\ last.op \in {"created:add", "accepted:update"}
      /\ \E t \in Handlers : Loading(t))

\* C2: at most one boot sequence is active at any time: no two sequences are
\* both between their Store clear and the end of their bulk load, where the
\* clear and the adds of one interleave with those of the other.
C2_AtMostOneBootSequence ==
    Cardinality({t \in Tasks : Loading(t)}) <= 1

\* C3: a network-change notification whose token equals the network id held
\* clears nothing, loads nothing, re-subscribes nothing and leaves the Store
\* and the error status as they were.
C3_SameTokenIsNoOp ==
    [][(/\ last'.op \in {"notify:null", "notify:same", "notify:changed"}
        /\ envNetwork' # NoNetwork
        /\ envNetwork' = this._networkId)
       => (/\ this' = this
           /\ watching' = watching
           /\ \A t \in Tasks : Active(t)' => Active(t))]_vars

C3_Witness ==
    /\ last.op = "notify:same"
    /\ this._networkId = envNetwork
    /\ Len(Store) > 0
    /\ this._logValentineRequestCreated \in watching

\* C4: a boot sequence that completes every step leaves the status Ready:
\* isLoaded() true, hasError() false, getError() null.
C4_SuccessfulBootIsReady ==
    last.op = "load:done" => (isLoaded /\ ~hasError /\ getError = NullErr)

\* C5: when a boot completes, the Store's entries that are no demo requests
\* are the requests getRequestByIndex(0..numRequesters-1) of the registry
\* returns, in index order, none of them a placeholder, no address twice.
C5_BulkLoadMirrorsLedger ==
    [][\A t \in Tasks :
        (last'.op = "load:done" /\ last'.task = t /\ Loading(t))
        => LET n == IF tasks[t].pc = "getRequest" THEN tasks[t].n ELSE 0
               led == ledger[this'._valentineRegistry]
               real == LoadedPart(this'._valentineRequests)
           IN  /\ Len(real) = n
               /\ n <= Len(led)
               /\ UniqueKeys(real)
               /\ \A k \in 1..n :
                     /\ _doesRequestExist(real[k])
                     /\ [real[k] EXCEPT !.wasAccepted = FALSE]
                            = [_convertRequestArrToObj(led[k]) EXCEPT !.wasAccepted = FALSE]
                     /\ real[k].wasAccepted => led[k][4]]_vars

\* C6: the Store never holds a non-existent placeholder request, and
\* getRequestIfExistsAsync never returns one.
C6_NoPlaceholder ==
    /\ \A k \in 1..Len(Store) : _doesRequestExist(Store[k])
    /\ \A n \in Networks, a \in Addrs \cup {NULL_ADDRESS} :
          \A k \in 1..Len(getRequestIfExistsAsync(n, a)) :
              _doesRequestExist(getRequestIfExistsAsync(n, a)[k])

\* C7: a creation event for a requesterAddress the Store holds leaves the
\* Store unchanged and raises no error, and the Store holds at most one entry
\* per requesterAddress.
C7_CreatedEventIdempotent ==
    [][/\ \A w \in watching, a \in Addrs :
            (DeliverCreated(w, FALSE, a) /\ StoreHas(Store, a))
            => (this' = this /\ last'.err = "none")
       /\ UniqueKeys(this'._valentineRequests)]_vars

C7_Witness ==
    /\ last.op = "created:held"
    /\ last.err = "none"
    /\ \E w \in watching, a \in Addrs :
          w.kind = "created" /\ LedgerHas(w.reg, a) /\ StoreHas(Store, a)

\* C8 as stated: a requesterAddress whose Store entry has shown wasAccepted
\* true never shows a Store entry with wasAccepted false again.
C8_NeverFalseAgain ==
    \A k \in 1..Len(Store) :
        Store[k].requesterAddress \in seenAccepted => Store[k].wasAccepted

\* C8 as amended: while an entry stays in the Store its wasAccepted field
\* never changes from true to false.
C8_AcceptedStaysWhileHeld ==
    [][\A k \in 1..Len(Store) :
        Store[k].wasAccepted
        => \A j \in 1..Len(this'._valentineRequests) :
              this'._valentineRequests[j].requesterAddress = Store[k].requesterAddress
              => this'._valentineRequests[j].wasAccepted]_vars

C8_Witness ==
    /\ last.op = "accepted:update"
    /\ \E k \in 1..Len(Store) : Store[k].wasAccepted

\* C9: neither the bulk load nor an event callback raises the Store errors
\* DuplicateKey or NotFound.
C9_NoStoreErrorInLoadOrCallbacks ==
    ~(/\ last.err \in {"DuplicateKey", "NotFound"}
      /\ last.op \in {"load:addError", "created:add", "created:held",
                      "accepted:update", "accepted:absent"})

\* C10: a boot that succeeds against a ledger with numRequesters = 0 leaves
\* getValentineRequests() empty, the status Ready and no error.
C10_EmptyLedgerEmptyStore ==
    (last.op = "load:done" /\ numRequesters(this._valentineRegistry) = 0)
    => (getValentineRequests = <<>> /\ isLoaded /\ ~hasError)

\* C11: when deployed() throws, getError() is CONTRACT_NOT_DEPLOYED_ON_NETWORK
\* exactly if the error's text includes "not been deployed to detected
\* network" and UNHANDLED_ERROR otherwise; the failing step and the network
\* query of the same attempt before it leave the Store, the watchers and the
\* watcher fields as they were.
C11_ResolutionFailure ==
    [][/\ \A t \in Tasks, err \in DeployedErrors :
            InstantiateDeployedFails(t, err)
            => /\ getError' = (IF _includes(errMsg(err), NotDeployedMessage)
                               THEN "CONTRACT_NOT_DEPLOYED_ON_NETWORK"
                               ELSE "UNHANDLED_ERROR")
               /\ isLoaded'
               /\ Store' = Store
               /\ watching' = watching
               /\ this'._logValentineRequestCreated = this._logValentineRequestCreated
               /\ this'._logRequestAccepted = this._logRequestAccepted
       /\ \A t \in Tasks :
            (InstantiateNetworkId(t) /\ envNetwork # NoNetwork)
            => (Store' = Store /\ watching' = watching)]_vars

C11_Witness ==
    /\ last.op = "deployed:notDeployed"
    /\ getError = "CONTRACT_NOT_DEPLOYED_ON_NETWORK"
    /\ Len(Store) > 0
    /\ this._logValentineRequestCreated \in watching

\* C12: the demo generator run after a bulk load raises no error, does not
\* end the boot in an error status and does not keep the watchers of that boot
\* from being registered.
C12_DemoGeneratorNeverFails ==
    last.op \in {"load:done", "load:fakeError"}
    => /\ last.err = "none"
       /\ getError # "UNHANDLED_ERROR"
       /\ this._logValentineRequestCreated \in watching
       /\ this._logValentineRequestCreated.by = last.task
       /\ this._logRequestAccepted \in watching
       /\ this._logRequestAccepted.by = last.task

\* C13: a null network identity, as the result of the network query or as
\* the token of a notification, makes getError() DISCONNECTED_FROM_ETHEREUM_NODE
\* and leaves the Store and the watchers as they were.
C13_NullNetworkKeepsStore ==
    [][\A t \in Tasks :
        \/ InstantiateNetworkId(t) /\ envNetwork = NoNetwork
        \/ t \in Handlers /\ _networkConnectionChangedAsync(t, NoNetwork)
        => /\ hasError'
           /\ getError' = "DISCONNECTED_FROM_ETHEREUM_NODE"
           /\ Store' = Store
           /\ watching' = watching]_vars

C13_Witness ==
    /\ last.op = "notify:null"
    /\ getError = "DISCONNECTED_FROM_ETHEREUM_NODE"
    /\ Len(LoadedPart(Store)) > 0
    /\ \E k \in 1..Len(Store) : Store[k].wasAccepted

\* C14: without a web3 instance at boot getError() is NO_WEB3_INSTANCE_FOUND,
\* isLoaded() is true and onUpdatedFn has been called; no listener is
\* registered, no task ever queries the network or resolves the contract, the
\* Store stays empty and no watcher is registered.
C14_NoWeb3EndsBoot ==
    /\ last.op = "boot:noWeb3" => getError = "NO_WEB3_INSTANCE_FOUND"
    /\ getError = "NO_WEB3_INSTANCE_FOUND"
       => /\ isLoaded
          /\ onUpdated
          /\ ~listening
          /\ \A t \in Tasks : ~Active(t)
          /\ \A t \in Handlers : tasks[t].pc = "idle"
          /\ this._networkId = NoNetwork
          /\ this._valentineRegistry = 0
          /\ Store = <<>>
          /\ watching = {}
          /\ this._logValentineRequestCreated = NoWatcher
          /\ this._logRequestAccepted = NoWatcher

C14_Witness ==
    /\ getError = "NO_WEB3_INSTANCE_FOUND"
    /\ tasks[0].pc = "done"
    /\ envNetwork # NoNetwork
    /\ LedgerOps({envNetwork}) > 0

\* C15: a creation or acceptance callback called with a delivery error
\* changes no field of the object: no Store entry, not the error, not the
\* loaded flag; it starts no task and changes no watcher.
C15_DeliveryErrorChangesNothing ==
    [][\A w \in watching, a \in Addrs :
        (DeliverCreated(w, TRUE, a) \/ DeliverAccepted(w, TRUE, a))
        => (this' = this /\ tasks' = tasks /\ watching' = watching
            /\ onUpdated' = onUpdated /\ last'.err = "none")]_vars

C15_Witness ==
    /\ last.op = "created:deliveryError"
    /\ \E w \in watching, a \in Addrs :
          w.kind = "created" /\ LedgerHas(w.reg, a) /\ ~StoreHas(Store, a)

\* C16: an acceptance event for a requesterAddress the Store does not hold
\* leaves the object unchanged and raises no error; a creation event for an
\* address the Store does not hold adds the entry, also when the request is
\* accepted on the ledger already.
C16_AcceptanceOfAbsentIgnored ==
    [][\A w \in watching, a \in Addrs :
        /\ (DeliverAccepted(w, FALSE, a) /\ ~StoreHas(Store, a))
           => (this' = this /\ last'.err = "none")
        /\ (DeliverCreated(w, FALSE, a) /\ ~StoreHas(Store, a))
           => (/\ StoreHas(Store', a)
               /\ Len(Store') = Len(Store) + 1
               /\ last'.err = "none")]_vars

C16_Witness ==
    /\ last.op = "accepted:absent"
    /\ last.err = "none"
    /\ \E w \in watching, a \in Addrs :
          /\ w.kind = "created"
          /\ LedgerHas(w.reg, a)
          /\ getRequestByRequesterAddress(w.reg, a)[4]
          /\ ~StoreHas(Store, a)

\* The watchers task t has registered.
WatchersBy(w, t) == {x \in w : x.by = t}

\* The steps that end a run of _instantiateContractAsync in its catch block.
FailedRunOps ==
    {"deployed:notDeployed", "deployed:error", "load:addError", "load:callError",
     "load:fakeError"}

\* C17: a run registers its two watchers only in the step that completes its
\* bulk load, after the Store clear and the adds of that run, and a run whose
\* contract resolution or bulk load failed registers none.
C17_WatchersAfterBulkLoad ==
    [][\A t \in Tasks :
        /\ WatchersBy(watching', t) \ WatchersBy(watching, t) # {}
           => /\ WatchersBy(watching, t) = {}
              /\ Loading(t)
              /\ tasks'[t].pc = "done"
              /\ last'.op = "load:done"
              /\ last'.task = t
              /\ {x.kind : x \in WatchersBy(watching', t)} = {"created", "accepted"}
        /\ (last'.task = t /\ last'.op \in FailedRunOps /\ Active(t))
           => (watching' = watching /\ WatchersBy(watching', t) = {})
        /\ ~(Loading(t) \/ tasks[t].pc = "done") => WatchersBy(watching, t) = {}]_vars

C17_Witness ==
    /\ last.op = "load:done"
    /\ Len(LoadedPart(Store)) > 0
    /\ Cardinality(WatchersBy(watching, last.task)) = 2

\* C18: at most one watcher of creation events and at most one of acceptance
\* events is watching, and these are the watchers the object holds.
C18_OneWatcherPerKind ==
    /\ Cardinality({w \in watching : w.kind = "created"}) <= 1
    /\ Cardinality({w \in watching : w.kind = "accepted"}) <= 1
    /\ watching \subseteq {this._logValentineRequestCreated, this._logRequestAccepted}

C18_Witness ==
    /\ last.op = "load:done"
    /\ last.stopped = 2
    /\ Cardinality(watching) = 2
    /\ WatchersBy(watching, last.task) = watching

\* The steps of a run of _instantiateContractAsync: the network query, the
\* contract resolution, the Store clear and the bulk load.
RunOps ==
    {"networkId:ok", "networkId:null", "deployed:ok", "load:count", "load:next",
     "load:done"} \cup FailedRunOps

\* C19: nothing retries a run that has ended.  A task that has ended stays
\* ended; a task starts only by the boot (task 0) or by a notification; every
\* network query, contract resolution, Store clear and bulk-load step is a
\* step of a task that has started and not ended; and a notification with a
\* non-null token that differs from the network id held starts a run of
\* _instantiateContractAsync.
C19_NoRetryButByNotification ==
    [][/\ \A t \in Tasks :
            /\ tasks[t].pc = "done" => tasks'[t].pc = "done"
            /\ (~Active(t) /\ Active(t)')
               => /\ last'.op \in {"boot:start", "notify:changed"}
                  /\ last'.task = t
                  /\ last'.op = "boot:start" <=> t = 0
       /\ last'.op \in RunOps => Active(last'.task)
       /\ (Store # <<>> /\ Store' = <<>>) => last'.op = "deployed:ok"
       /\ \A t \in Handlers, n \in Networks :
            (_networkConnectionChangedAsync(t, n) /\ n # this._networkId)
            => (tasks'[t].pc = "networkId" /\ last'.op = "notify:changed")]_vars

C19_Witness ==
    /\ last.op = "notify:changed"
    /\ tasks[0].pc = "done"
    /\ this._networkId = NoNetwork
    /\ hasError

\* t runs the boot or a reload: it has started and has not ended.
Running(t) == tasks[t].pc \notin {"idle", "done"}

ErrorKinds ==
    {"NO_WEB3_INSTANCE_FOUND", "DISCONNECTED_FROM_ETHEREUM_NODE",
     "CONTRACT_NOT_DEPLOYED_ON_NETWORK", "UNHANDLED_ERROR"}

\* Every boot or reload that has started ends.
C20_Terminates == \A t \in Tasks : Running(t) ~> tasks[t].pc = "done"

\* It ends with isLoaded() true and onUpdatedFn called.
C20_EndsLoaded ==
    [][\A t \in Tasks :
        (Running(t) /\ tasks'[t].pc = "done") => (isLoaded' /\ onUpdated')]_vars

\* It ends Ready (getError() null) or with one of the four errors.
C20_EndsInKnownStatus ==
    [][\A t \in Tasks :
        (Running(t) /\ tasks'[t].pc = "done")
        => getError' \in {NullErr} \cup ErrorKinds]_vars

\* isLoaded() never turns from true to false.
C20_LoadedStays == [][isLoaded => isLoaded']_vars

\* C20: when window.onload fires and every remote call returns or fails,
\* every boot and every reload ends, with isLoaded() true and onUpdatedFn
\* called, in Ready or in one of the four error statuses, and isLoaded() never
\* turns from true to false.
C20_EveryBootAttemptEnds ==
    /\ C20_Terminates
    /\ C20_EndsLoaded
    /\ C20_EndsInKnownStatus
    /\ C20_LoadedStays

====
